---- MODULE Spec2Model ----
(***************************************************************************)
(* Model of the WeWorkEmail plugin (src/plugins/qymail/__init__.py).       *)
(*                                                                         *)
(* The plugin object holds a stored configuration and a reference to a     *)
(* BackgroundScheduler.  The host calls init_plugin / stop_service /       *)
(* send_email / get_page from its own thread; the scheduler fires          *)
(* check_email from a worker thread.  The IMAP mailbox and the SMTP        *)
(* endpoint are the environment: every call into them may succeed or fail. *)
(***************************************************************************)
EXTENDS Integers, Sequences, FiniteSets, TLC

VARIABLES
    _enabled,        \* self._enabled
    _account,        \* self._account
    _password,       \* self._password
    _check_interval, \* self._check_interval
    _notify,         \* self._notify
    _scheduler,      \* self._scheduler: 0 is None, otherwise a scheduler object
    scheds,          \* the BackgroundScheduler objects: state and registered job
    caller,          \* the host thread: idle, or blocked inside shutdown()
    lastCall,        \* the last lifecycle call that returned
    polls,           \* the check_email invocations of the worker threads
    mboxSize,        \* INBOX: message sequence numbers 1..mboxSize, oldest first
    unseen,          \* INBOX: the messages without the \Seen flag
    emails,          \* what the last get_recent_emails call returned
    rows,            \* the table rows the last get_page call built
    fetchLog,        \* what the mailbox answered during the last get_recent_emails
    sendLog,         \* the last send_email call: its arguments and the SMTP dialogue
    sendResult       \* what the last send_email call returned

vars == <<_enabled, _account, _password, _check_interval, _notify, _scheduler,
          scheds, caller, lastCall, polls, mboxSize, unseen,
          emails, rows, fetchLog, sendLog, sendResult>>

pluginVars == <<_enabled, _account, _password, _check_interval, _notify>>
lifeVars   == <<_scheduler, scheds, caller, lastCall>>
mboxVars   == <<mboxSize, unseen>>
pageVars   == <<emails, rows, fetchLog>>
sendVars   == <<sendLog, sendResult>>

----------------------------------------------------------------------------
(* Bounds of the model *)

MaxMail  == 2   \* messages the INBOX holds in the lifecycle/poll specification
MaxPolls == 2   \* worker threads that can run check_email at once
MaxSched == 2   \* scheduler objects alive at once
MaxInbox == 21  \* messages the INBOX holds in the mail-list specification

(* Python values *)

None    == "None"
Missing == "<missing>"      \* a key the config dict does not hold
DefaultCron == "*/10 * * * *"

Truthy(v) == v \notin {None, "False", ""}

SchedIds == 1..MaxSched
PollIds  == 1..MaxPolls

RECURSIVE SortedSeq(_)
SortedSeq(S) ==
    IF S = {} THEN <<>>
    ELSE LET m == CHOOSE x \in S : \A y \in S : x <= y
         IN  <<m>> \o SortedSeq(S \ {m})

----------------------------------------------------------------------------
(* The configuration dicts the host can pass to init_plugin *)

NoConfig == [isNone |-> TRUE, enabled |-> Missing, account |-> Missing,
             password |-> Missing, check_interval |-> Missing]

Configs ==
    {NoConfig} \cup
    [isNone : {FALSE},
     enabled : {Missing, "True", "False"},
     account : {Missing, "", "user"},
     password : {Missing, "pw"},
     check_interval : {Missing, "bad cron"}]

\* `if config:` -- None and the empty dict are falsy
ConfigTruthy(c) ==
    /\ ~c.isNone
    /\ \E k \in {"enabled", "account", "password", "check_interval"} : c[k] # Missing

\* dict.get(key, default)
Get(c, k, default) == IF c[k] = Missing THEN default ELSE c[k]

\* CronTrigger.from_crontab accepts five whitespace-separated fields
ValidCrontab(expr) == expr = DefaultCron

----------------------------------------------------------------------------
(* Scheduler objects and check_email invocations *)

\* APScheduler runs at most this many instances of one job at a time
\* (the default of add_job, which init_plugin does not override)
max_instances == 1

NoSched == [state |-> "none", job |-> FALSE]

IdleCaller == [pc |-> "idle", op |-> "", config |-> NoConfig]

\* One check_email invocation.  pc is its position, imap the connection state,
\* status/messages/nodata the result of the search.  The other fields record
\* what happened: the step that raised, whether the handler logged it, whether
\* an exception left check_email, the calls of post_message and the count they
\* carried, and whether a tick was skipped while this invocation was running.
IdlePoll == [pc |-> "idle", sched |-> 0, imap |-> "NONAUTH", status |-> "",
             messages |-> <<>>, nodata |-> FALSE, failStep |-> "none",
             logged |-> FALSE, escaped |-> FALSE, sent |-> 0, sentCount |-> 0,
             missed |-> FALSE]

Executing(p) == polls[p].pc \notin {"idle", "done"}

\* the check_email invocations scheduler s has running
InFlight(s) == {p \in PollIds : polls[p].sched = s /\ Executing(p)}

----------------------------------------------------------------------------
(* _validate_config: all([self._account, self._password]) *)

\* any([...]) in place of all([...])
ValidateAny == Truthy(_account) \/ Truthy(_password)

_validate_config == Truthy(_account) /\ Truthy(_password)

----------------------------------------------------------------------------
(* stop_service *)

\* shutdown(wait=False): the call returns while check_email is still running
StopNeverBlocks == FALSE

\* scheduler.shutdown() is called with wait=True: it returns only when the
\* executor's running jobs have ended
StopBlocks ==
    /\ _scheduler # 0
    /\ scheds[_scheduler].state = "running"
    /\ InFlight(_scheduler) # {}

\* remove_all_jobs(), shutdown() under way
StopStarted ==
    [scheds EXCEPT ![_scheduler] = [state |-> "stopping", job |-> FALSE]]

\* only self._scheduler = None: the scheduler object is left as it is
OnlyDereferenced == scheds

\* remove_all_jobs(), shutdown() if running, self._scheduler = None
StoppedScheds ==
    IF _scheduler = 0 THEN scheds ELSE [scheds EXCEPT ![_scheduler] = NoSched]

stop_service ==
    /\ caller.pc = "idle"
    /\ IF StopBlocks
       THEN /\ scheds' = StopStarted
            /\ caller' = [pc |-> "shutdown", op |-> "stop_service", config |-> NoConfig]
            /\ UNCHANGED <<_scheduler, lastCall>>
       ELSE /\ scheds' = StoppedScheds
            /\ _scheduler' = 0
            /\ lastCall' = "stop_service"
            /\ UNCHANGED caller
    /\ UNCHANGED <<pluginVars, polls, mboxVars, pageVars, sendVars>>

----------------------------------------------------------------------------
(* init_plugin *)

FreeIds(sc) == {s \in SchedIds : sc[s].state = "none" /\ InFlight(s) = {}}

\* lines 55-69, run once the stop_service call of line 53 has returned
InitAfterStop(config) ==
    /\ IF ConfigTruthy(config)
       THEN /\ _enabled' = Get(config, "enabled", None)
            /\ _account' = Get(config, "account", None)
            /\ _password' = Get(config, "password", None)
            /\ _check_interval' = Get(config, "check_interval", DefaultCron)
       ELSE UNCHANGED <<_enabled, _account, _password, _check_interval>>
    /\ UNCHANGED _notify
    /\ IF (Truthy(_enabled) /\ _validate_config)'
       THEN /\ FreeIds(StoppedScheds) # {}
            /\ LET s == CHOOSE x \in FreeIds(StoppedScheds) :
                            \A y \in FreeIds(StoppedScheds) : x <= y
               IN  /\ _scheduler' = s
                   /\ IF ValidCrontab(_check_interval')
                      THEN \* add_job, start
                           scheds' = [StoppedScheds EXCEPT
                                        ![s] = [state |-> "running", job |-> TRUE]]
                      ELSE \* from_crontab raises: the scheduler is created and
                           \* assigned, but has no job and is not started
                           scheds' = [StoppedScheds EXCEPT
                                        ![s] = [state |-> "created", job |-> FALSE]]
       ELSE /\ _scheduler' = 0
            /\ scheds' = StoppedScheds
    /\ lastCall' = "init_plugin"
    /\ caller' = IdleCaller

init_plugin(config) ==
    /\ caller.pc = "idle"
    /\ IF StopBlocks
       THEN /\ scheds' = StopStarted
            /\ caller' = [pc |-> "shutdown", op |-> "init_plugin", config |-> config]
            /\ UNCHANGED <<pluginVars, _scheduler, lastCall>>
       ELSE InitAfterStop(config)
    /\ UNCHANGED <<polls, mboxVars, pageVars, sendVars>>

\* the blocked shutdown() returns: the running check_email has ended
ShutdownReturns ==
    /\ caller.pc = "shutdown"
    /\ InFlight(_scheduler) = {}
    /\ IF caller.op = "init_plugin"
       THEN InitAfterStop(caller.config)
       ELSE /\ scheds' = StoppedScheds
            /\ _scheduler' = 0
            /\ lastCall' = "stop_service"
            /\ caller' = IdleCaller
            /\ UNCHANGED pluginVars
    /\ UNCHANGED <<polls, mboxVars, pageVars, sendVars>>

----------------------------------------------------------------------------
(* The scheduler fires the job "wework_email_check" *)

FreeSlots == {p \in PollIds : ~Executing(p)}

Tick(s) ==
    /\ scheds[s].state = "running"
    /\ scheds[s].job
    /\ IF Cardinality(InFlight(s)) < max_instances
       THEN /\ FreeSlots # {}
            /\ LET p == CHOOSE x \in FreeSlots : \A y \in FreeSlots : x <= y
               IN  polls' = [polls EXCEPT ![p] =
                                [IdlePoll EXCEPT !.pc = "connect", !.sched = s]]
       ELSE \* the run is skipped: maximum number of running instances reached
            polls' = [p \in PollIds |->
                        IF p \in InFlight(s)
                        THEN [polls[p] EXCEPT !.missed = TRUE]
                        ELSE polls[p]]
    /\ UNCHANGED <<pluginVars, lifeVars, mboxVars, pageVars, sendVars>>

----------------------------------------------------------------------------
(* check_email *)

\* except imaplib.IMAP4.error: the AttributeError of the count and a failure
\* of post_message are not caught
CatchImapErrorOnly(rec, step) ==
    IF step \in {"count", "notify"}
    THEN [rec EXCEPT !.pc = "done", !.failStep = step, !.escaped = TRUE]
    ELSE [rec EXCEPT !.pc = "done", !.failStep = step, !.logged = TRUE]

\* except Exception as e: logger.error(...)
CatchAndLog(rec, step) ==
    [rec EXCEPT !.pc = "done", !.failStep = step, !.logged = TRUE]

PollFrame == UNCHANGED <<pluginVars, lifeVars, mboxVars, pageVars, sendVars>>

\* imaplib.IMAP4_SSL(self._imap_host)
PollConnect(p) ==
    /\ polls[p].pc = "connect"
    /\ \E ok \in BOOLEAN :
         polls' = [polls EXCEPT ![p] =
                     IF ok THEN [@ EXCEPT !.pc = "login"]
                     ELSE CatchAndLog(@, "connect")]
    /\ PollFrame

\* a handler that switches the plugin off when the login is refused
PollLoginDisables(p) ==
    /\ polls[p].pc = "login"
    /\ \E ok \in BOOLEAN :
         /\ polls' = [polls EXCEPT ![p] =
                       IF ok THEN [@ EXCEPT !.pc = "select", !.imap = "AUTH"]
                       ELSE CatchAndLog(@, "login")]
         /\ _enabled' = IF ok THEN _enabled ELSE "False"
    /\ UNCHANGED <<_account, _password, _check_interval, _notify,
                   lifeVars, mboxVars, pageVars, sendVars>>

\* imap.login(self._account, self._password)
PollLogin(p) ==
    /\ polls[p].pc = "login"
    /\ \E ok \in BOOLEAN :
         polls' = [polls EXCEPT ![p] =
                     IF ok THEN [@ EXCEPT !.pc = "select", !.imap = "AUTH"]
                     ELSE CatchAndLog(@, "login")]
    /\ PollFrame

\* imap.select("INBOX"): a NO response is returned, not raised, and the
\* connection stays in state AUTH
PollSelect(p) ==
    /\ polls[p].pc = "select"
    /\ \E typ \in {"OK", "NO", "raise"} :
         polls' = [polls EXCEPT ![p] =
                     CASE typ = "OK" -> [@ EXCEPT !.pc = "search", !.imap = "SELECTED"]
                       [] typ = "NO" -> [@ EXCEPT !.pc = "search"]
                       [] OTHER      -> CatchAndLog(@, "select")]
    /\ PollFrame

\* what imap.search(None, 'UNSEEN') can answer: a server may leave out the
\* untagged SEARCH response when nothing matches, and imaplib then returns [None]
SearchAnswers == {"OK", "NO", "raise"} \cup (IF unseen = {} THEN {"OK_nodata"} ELSE {})

\* every message the search finds loses its unseen status
AllSeenAfterSearch == {}

\* SEARCH reads the flags and changes none
UnseenAfterSearch == unseen

\* status, messages = imap.search(None, 'UNSEEN')
PollSearch(p) ==
    /\ polls[p].pc = "search"
    /\ IF polls[p].imap # "SELECTED"
       THEN \* command SEARCH illegal in state AUTH
            polls' = [polls EXCEPT ![p] = CatchAndLog(@, "search")]
       ELSE \E typ \in SearchAnswers :
              polls' = [polls EXCEPT ![p] =
                 CASE typ = "OK" -> [@ EXCEPT !.pc = "count", !.status = "OK",
                                              !.messages = SortedSeq(unseen)]
                   [] typ = "OK_nodata" -> [@ EXCEPT !.pc = "count", !.status = "OK",
                                                     !.nodata = TRUE]
                   [] typ = "NO" -> [@ EXCEPT !.pc = "count", !.status = "NO"]
                   [] OTHER      -> CatchAndLog(@, "search")]
    /\ unseen' = IF polls'[p].status = "OK" THEN UnseenAfterSearch ELSE unseen
    /\ UNCHANGED <<pluginVars, lifeVars, mboxSize, pageVars, sendVars>>

\* if email_count >= 0
NewMailOrNone(email_count) == email_count >= 0

\* if email_count > 0
NewMail(email_count) == email_count > 0

\* lines 86-92: count the identifiers, notify when there are any
\* _send_notification: post_message only if self._notify
PollCount(p) ==
    /\ polls[p].pc = "count"
    /\ IF polls[p].status # "OK"
       THEN polls' = [polls EXCEPT ![p].pc = "exit"]
       ELSE IF polls[p].nodata
       THEN \* messages[0] is None: .split() raises AttributeError
            polls' = [polls EXCEPT ![p] = CatchAndLog(@, "count")]
       ELSE LET email_count == Len(polls[p].messages)
            IN  IF NewMail(email_count) /\ _notify
                THEN \E ok \in BOOLEAN :
                       polls' = [polls EXCEPT ![p] =
                          IF ok
                          THEN [@ EXCEPT !.pc = "exit", !.sent = @ + 1,
                                         !.sentCount = email_count]
                          ELSE CatchAndLog([@ EXCEPT !.sent = @ + 1,
                                                     !.sentCount = email_count],
                                           "notify")]
                ELSE polls' = [polls EXCEPT ![p].pc = "exit"]
    /\ PollFrame

\* leaving the with block: IMAP4.__exit__ logs out
PollExit(p) ==
    /\ polls[p].pc = "exit"
    /\ \E ok \in BOOLEAN :
         polls' = [polls EXCEPT ![p] =
                     IF ok THEN [@ EXCEPT !.pc = "done"]
                     ELSE CatchAndLog(@, "exit")]
    /\ PollFrame

check_email(p) ==
    \/ PollConnect(p)
    \/ PollLogin(p)
    \/ PollSelect(p)
    \/ PollSearch(p)
    \/ PollCount(p)
    \/ PollExit(p)

----------------------------------------------------------------------------
(* The mailbox changes behind the plugin's back *)

\* a new message is delivered
Arrive(cap) ==
    /\ mboxSize < cap
    /\ mboxSize' = mboxSize + 1
    /\ unseen' = unseen \cup {mboxSize + 1}
    /\ UNCHANGED <<pluginVars, lifeVars, polls, pageVars, sendVars>>

\* another mail client reads a message
ReadElsewhere(m) ==
    /\ m \in unseen
    /\ unseen' = unseen \ {m}
    /\ UNCHANGED <<pluginVars, lifeVars, polls, mboxSize, pageVars, sendVars>>

----------------------------------------------------------------------------
(* The lifecycle and polling specification *)

NoEmails  == <<>>
NoFetch   == [session |-> "", size |-> 0, failAt |-> 0, failure |-> "none"]
NoSend    == [called |-> FALSE]

Init ==
    /\ _enabled = "False"
    /\ _account = None
    /\ _password = None
    /\ _check_interval = DefaultCron
    /\ _notify = TRUE
    /\ _scheduler = 0
    /\ scheds = [s \in SchedIds |-> NoSched]
    /\ caller = IdleCaller
    /\ lastCall = "none"
    /\ polls = [p \in PollIds |-> IdlePoll]
    /\ mboxSize = 0
    /\ unseen = {}
    /\ emails = NoEmails
    /\ rows = <<>>
    /\ fetchLog = NoFetch
    /\ sendLog = NoSend
    /\ sendResult = NoSend

Next ==
    \/ \E config \in Configs : init_plugin(config)
    \/ stop_service
    \/ ShutdownReturns
    \/ \E s \in SchedIds : Tick(s)
    \/ \E p \in PollIds : check_email(p)
    \/ Arrive(MaxMail)
    \/ \E m \in 1..MaxMail : ReadElsewhere(m)

Spec == Init /\ [][Next]_vars

----------------------------------------------------------------------------
(* get_recent_emails and get_page *)

\* def get_recent_emails(self, limit=20)
DefaultLimit == 20

Min(a, b) == IF a < b THEN a ELSE b

\* header `name` of message number num
Header(num, name) == <<name, num>>

\* content[:500] + "..."
_parse_email_content(num) == <<"text/plain", num, "...">>

email_info(num) ==
    [from    |-> Header(num, "From"),
     subject |-> Header(num, "Subject"),
     date    |-> Header(num, "Date"),
     content |-> _parse_email_content(num)]

\* what the mailbox does with message number num in this call:
\*   "OK"           fetch answers OK and the body decodes
\*   "NO"           fetch answers NO (the message is gone): status is not 'OK'
\*   "fetch_raise"  fetch raises (connection lost, BAD response)
\*   "decode_raise" fetch answers OK, the payload is not UTF-8: .decode() raises
Answer(log, num) == IF num = log.failAt THEN log.failure ELSE "OK"

\* messages[0].split()[:limit] of the ascending result of search(None, 'ALL')
Batch(size, limit) == [i \in 1..Min(limit, size) |-> i]

\* the for loop of lines 135-147; an exception leaves the loop for the
\* handler of line 148, which returns what was collected so far
RECURSIVE FetchLoop(_, _, _, _)
FetchLoop(log, batch, i, acc) ==
    IF i > Len(batch) THEN acc
    ELSE LET a == Answer(log, batch[i])
         IN  CASE a = "OK" -> FetchLoop(log, batch, i + 1, Append(acc, email_info(batch[i])))
               [] a = "NO" -> FetchLoop(log, batch, i + 1, acc)
               [] OTHER    -> acc

\* log.session is "ok" when connect, login, select and search succeeded with
\* status OK; any other session ends with the empty list
get_recent_emails(log, limit) ==
    IF log.session = "ok"
    THEN FetchLoop(log, Batch(log.size, limit), 1, <<>>)
    ELSE <<>>

Sessions == {"ok", "connect_raise", "login_raise", "search_raise", "search_NO"}

FetchFailures == {"NO", "fetch_raise", "decode_raise"}

\* one table row per returned email
PageRow(email) ==
    [component |-> "tr", from |-> email.from, subject |-> email.subject,
     date |-> email.date, onClick |-> <<"showEmailDetail", email.content>>]

get_page ==
    /\ \E session \in Sessions, failAt \in 0..Min(DefaultLimit, mboxSize),
          failure \in FetchFailures :
         \* messages are fetched only in a session that got as far as the loop;
         \* failAt = 0 is the call in which every fetch and decode succeeds
         /\ (session # "ok") => failAt = 0
         /\ (failAt = 0) => failure = "NO"
         /\ LET log == [session |-> session, size |-> mboxSize,
                        failAt |-> failAt,
                        failure |-> IF failAt = 0 THEN "none" ELSE failure]
            IN  /\ fetchLog' = log
                /\ emails' = get_recent_emails(log, DefaultLimit)
                /\ rows' = [i \in 1..Len(emails') |-> PageRow(emails'[i])]
    /\ UNCHANGED <<pluginVars, lifeVars, polls, mboxVars, sendVars>>

InitPage ==
    /\ _enabled = "False"
    /\ _account = "user"
    /\ _password = "pw"
    /\ _check_interval = DefaultCron
    /\ _notify = TRUE
    /\ _scheduler = 0
    /\ scheds = [s \in SchedIds |-> NoSched]
    /\ caller = IdleCaller
    /\ lastCall = "init_plugin"
    /\ polls = [p \in PollIds |-> IdlePoll]
    /\ mboxSize = 0
    /\ unseen = {}
    /\ emails = NoEmails
    /\ rows = <<>>
    /\ fetchLog = NoFetch
    /\ sendLog = NoSend
    /\ sendResult = NoSend

NextPage ==
    \/ Arrive(MaxInbox)
    \/ get_page

SpecPage == InitPage /\ [][NextPage]_vars

----------------------------------------------------------------------------
(* send_email *)

Recipients == {"a@example.com", "b@example.com", ""}
Subjects   == {"report", ""}
Contents   == {"<p>hello</p>", None}

File(name, content) == [name |-> name, content |-> content]

\* None, an empty list, and lists of dicts that may lack a key
AttachmentLists ==
    {<<>>,
     <<File("a.txt", "aaa")>>,
     <<File(Missing, "aaa")>>,
     <<File("a.txt", "aaa"), File("b.txt", Missing)>>}

NoAttachments == [isNone |-> TRUE, files |-> <<>>]

Attachments == {NoAttachments} \cup [isNone : {FALSE}, files : AttachmentLists]

\* str(e) of the exceptions the steps of send_email raise
StrOf(exc) ==
    CASE exc = "content"      -> "'NoneType' object has no attribute 'encode'"
      [] exc = "file_content" -> "'content'"
      [] exc = "file_name"    -> "'name'"
      [] exc = "connect"      -> "[Errno 111] Connection refused"
      [] exc = "login"        -> "(535, b'Error: authentication failed')"
      [] exc = "send_message" -> "(554, b'Transaction failed')"
      [] exc = "quit"         -> "(421, b'Service not available')"

\* lines 107-114: the first attachment that cannot be built, "" if none
RECURSIVE AttachError(_, _)
AttachError(files, i) ==
    IF i > Len(files) THEN ""
    ELSE IF files[i].content = Missing THEN "file_content"
    ELSE IF files[i].name = Missing THEN "file_name"
    ELSE AttachError(files, i + 1)

\* lines 99-114: building the MIME message
ComposeError(content, attachments) ==
    IF content = None THEN "content"
    ELSE IF attachments.isNone \/ attachments.files = <<>> THEN ""
    ELSE AttachError(attachments.files, 1)

\* the SMTP server's part: the step that fails, "" if none does
SmtpFailures == {"", "connect", "login", "send_message", "quit"}

\* lines 116-118: the steps of the SMTP dialogue that succeeded
Dialogue(smtp) ==
    CASE smtp = "connect"      -> <<>>
      [] smtp = "login"        -> <<"connect">>
      [] smtp = "send_message" -> <<"connect", "login">>
      [] OTHER                 -> <<"connect", "login", "send_message">>

\* except smtplib.SMTPException: what building the message raises is not caught
FailedSmtpOnly(exc) ==
    IF exc \in {"content", "file_content", "file_name"}
    THEN [status |-> FALSE, message |-> "", raised |-> TRUE]
    ELSE [status |-> FALSE, message |-> StrOf(exc), raised |-> FALSE]

\* return {"status": False, "message": str(e)}
Failed(exc) == [status |-> FALSE, message |-> StrOf(exc), raised |-> FALSE]

\* return {"status": True, "message": "邮件发送成功"} ("mail sent")
Sent == [status |-> TRUE, message |-> "mail sent", raised |-> FALSE]

send_email(to, subject, content, attachments) ==
    /\ \E smtp \in SmtpFailures :
         \* login(None, None) cannot succeed
         /\ (~_validate_config) => smtp \in {"connect", "login"}
         /\ LET compose == ComposeError(content, attachments)
            IN  IF compose # ""
                THEN /\ sendResult' = Failed(compose)
                     /\ sendLog' = [called |-> TRUE, to |-> to, subject |-> subject,
                                    content |-> content, attachments |-> attachments,
                                    dialogue |-> <<>>]
                ELSE /\ sendResult' = IF smtp = "" THEN Sent ELSE Failed(smtp)
                     /\ sendLog' = [called |-> TRUE, to |-> to, subject |-> subject,
                                    content |-> content, attachments |-> attachments,
                                    dialogue |-> Dialogue(smtp)]
    /\ UNCHANGED <<pluginVars, lifeVars, polls, mboxVars, pageVars>>

\* the plugin before its first configuration, or configured and not enabled
InitSend ==
    /\ _enabled = "False"
    /\ \/ _account = None /\ _password = None
       \/ _account = "user" /\ _password = "pw"
    /\ _check_interval = DefaultCron
    /\ _notify = TRUE
    /\ _scheduler = 0
    /\ scheds = [s \in SchedIds |-> NoSched]
    /\ caller = IdleCaller
    /\ lastCall = "none"
    /\ polls = [p \in PollIds |-> IdlePoll]
    /\ mboxSize = 0
    /\ unseen = {}
    /\ emails = NoEmails
    /\ rows = <<>>
    /\ fetchLog = NoFetch
    /\ sendLog = NoSend
    /\ sendResult = NoSend

NextSend ==
    \E to \in Recipients, subject \in Subjects, content \in Contents,
       attachments \in Attachments :
         send_email(to, subject, content, attachments)

SpecSend == InitSend /\ [][NextSend]_vars

----------------------------------------------------------------------------
(* Properties *)

Done(p)      == polls[p].pc = "done"
Succeeded(p) == Done(p) /\ polls[p].failStep = "none"
Found(p)     == {polls[p].messages[i] : i \in 1..Len(polls[p].messages)}

C2_SendNeverRaises ==
    sendLog.called =>
        /\ ~sendResult.raised
        /\ ~sendResult.status => sendResult.message # ""
        /\ sendResult.status =>
              sendLog.dialogue = <<"connect", "login", "send_message">>

\* send_email was called while the SMTP endpoint refused the connection
C2_Witness ==
    /\ sendLog.called
    /\ ~sendResult.status
    /\ sendResult.message = StrOf("connect")
    /\ sendLog.dialogue = <<>>

\* C3: no exception leaves check_email; a poll in which a step failed has
\* ended with the error logged
C3_NothingEscapes ==
    \A p \in PollIds :
        /\ ~polls[p].escaped
        /\ (Done(p) /\ polls[p].failStep # "none") => polls[p].logged

\* a poll ended after post_message failed
C3_Witness ==
    \E p \in PollIds : Done(p) /\ polls[p].failStep = "notify" /\ polls[p].logged

\* a tick of scheduler s starts check_email now
TickStarts(s) ==
    /\ scheds[s].state = "running"
    /\ scheds[s].job
    /\ InFlight(s) = {}
    /\ FreeSlots # {}

\* C4: the step in which a poll fails changes neither the stored
\* configuration nor the scheduler nor its job, and if the job was registered
\* on a running scheduler the next tick starts check_email again
C4_FailedPollKeepsPlugin ==
    [][\A p \in PollIds :
          (Executing(p) /\ polls'[p].pc = "done" /\ polls'[p].failStep # "none") =>
              /\ UNCHANGED <<pluginVars, _scheduler, scheds>>
              /\ (scheds[polls[p].sched].state = "running" /\ scheds[polls[p].sched].job)
                    => TickStarts(polls[p].sched)']_vars

\* a poll failed at login, the plugin is still enabled and its job registered
C4_Witness ==
    \E p \in PollIds :
        /\ Done(p)
        /\ polls[p].failStep = "login"
        /\ Truthy(_enabled)
        /\ _scheduler = polls[p].sched
        /\ TickStarts(polls[p].sched)

Stopped == caller.pc = "idle" /\ lastCall = "stop_service"

\* the order of the steps of check_email
PollSuccessors(pc) ==
    CASE pc = "connect" -> {"login", "done"}
      [] pc = "login"   -> {"select", "done"}
      [] pc = "select"  -> {"search", "done"}
      [] pc = "search"  -> {"count", "done"}
      [] pc = "count"   -> {"exit", "done"}
      [] pc = "exit"    -> {"done"}
      [] OTHER          -> {"connect"}

\* C5: once stop_service has returned no job is registered, no scheduler runs,
\* the reference is cleared and no poll starts; a poll in flight is never cut
\* short, it only moves on along the steps of check_email
C5_StopDeregisters ==
    [][/\ Stopped' =>
            /\ _scheduler' = 0
            /\ \A s \in SchedIds : scheds'[s] = NoSched
       /\ \A p \in PollIds :
            /\ (~Executing(p) /\ Executing(p)') => ~Stopped
            /\ Executing(p) =>
                  \/ polls'[p].pc = polls[p].pc
                  \/ polls'[p].pc \in PollSuccessors(polls[p].pc)]_vars

\* stop_service was called while a poll is in flight, and the poll is going on
C5_Witness ==
    /\ caller.pc = "shutdown"
    /\ caller.op = "stop_service"
    /\ \E p \in PollIds : Executing(p) /\ polls[p].pc # "connect"

\* C6: at most one check_email is executing, at most one scheduler is alive
\* and at most one job is registered
C6_OnePoller ==
    /\ Cardinality({p \in PollIds : Executing(p)}) <= 1
    /\ Cardinality({s \in SchedIds : scheds[s].state # "none"}) <= 1
    /\ Cardinality({s \in SchedIds : scheds[s].job}) <= 1

\* a tick was skipped because the poll was still running, and init_plugin was
\* called before that poll ended
C6_Witness ==
    /\ caller.pc = "shutdown"
    /\ caller.op = "init_plugin"
    /\ \E p \in PollIds : Executing(p) /\ polls[p].missed

\* C7, as stated: when one message of the batch fails, the other messages of
\* the batch are all returned
C7_OthersReturned ==
    (fetchLog.session = "ok" /\ fetchLog.failAt # 0) =>
        {emails[i].date[2] : i \in 1..Len(emails)} =
            (1..Min(DefaultLimit, fetchLog.size)) \ {fetchLog.failAt}

\* C8, as stated: with more than N messages in the inbox and no failure, the
\* rows are those of the N newest messages, one row each
C8_NewestRows ==
    (fetchLog.session = "ok" /\ fetchLog.failAt = 0 /\ fetchLog.size > DefaultLimit) =>
        /\ Len(rows) = DefaultLimit
        /\ {rows[i].date[2] : i \in 1..Len(rows)} =
              (fetchLog.size - DefaultLimit + 1)..fetchLog.size

\* a scheduler is running with exactly one registered poll job
Polling ==
    /\ _scheduler # 0
    /\ scheds[_scheduler] = [state |-> "running", job |-> TRUE]
    /\ \A s \in SchedIds \ {_scheduler} : scheds[s] = NoSched

NoScheduler == _scheduler = 0 /\ \A s \in SchedIds : scheds[s] = NoSched

Configured == Truthy(_enabled) /\ Truthy(_account) /\ Truthy(_password)

\* C9, as stated: between lifecycle calls, polling runs if and only if the last
\* call was an init_plugin that left the plugin enabled with account and
\* password; in every other case no scheduler exists
C9_PollingIffConfigured ==
    caller.pc = "idle" =>
        /\ Polling <=> (lastCall = "init_plugin" /\ Configured)
        /\ ~Polling => NoScheduler

\* C9, amended: polling runs if and only if the last call was an init_plugin
\* that left the plugin enabled with account, password and a valid crontab
\* expression; with an invalid expression init_plugin leaves a scheduler that
\* has no job and was not started; in every other case no scheduler exists
C9_PollingIffValid ==
    caller.pc = "idle" =>
        /\ Polling <=>
              (lastCall = "init_plugin" /\ Configured /\ ValidCrontab(_check_interval))
        /\ ~Polling =>
              IF lastCall = "init_plugin" /\ Configured
              THEN /\ _scheduler # 0
                   /\ scheds[_scheduler] = [state |-> "created", job |-> FALSE]
                   /\ \A s \in SchedIds \ {_scheduler} : scheds[s] = NoSched
              ELSE NoScheduler

\* init_plugin was given an enabled configuration with an invalid crontab
C9_Witness ==
    /\ caller.pc = "idle"
    /\ lastCall = "init_plugin"
    /\ Configured
    /\ ~ValidCrontab(_check_interval)
    /\ _scheduler # 0

\* connect, login, select and search succeeded in poll p
SearchedOK(p) ==
    /\ polls[p].failStep \notin {"connect", "login", "select", "search"}
    /\ polls[p].status = "OK"

C10_Done ==
    \A p \in PollIds :
        Done(p) =>
            /\ polls[p].sent \in {0, 1}
            /\ polls[p].sent = 1 <=>
                  /\ SearchedOK(p)
                  /\ ~polls[p].nodata
                  /\ Len(polls[p].messages) > 0
                  /\ _notify
            /\ polls[p].sent = 1 => polls[p].sentCount = Len(polls[p].messages)

\* C10: a poll sends one notification, with the number of unseen messages the
\* search found, exactly when the session and the search succeeded, the count
\* is positive and notify is set, and none otherwise; no step of a poll
\* changes the mailbox, and the search returns exactly the unseen messages
C10_NotifyIffUnseen ==
    [][/\ \A p \in PollIds :
            /\ polls'[p] # polls[p] => UNCHANGED <<mboxSize, unseen>>
            /\ (polls[p].pc = "search" /\ polls'[p].pc = "count"
                  /\ polls'[p].status = "OK" /\ ~polls'[p].nodata)
                  => polls'[p].messages = SortedSeq(unseen)
       /\ C10_Done']_vars

\* a poll has notified of two unseen messages, which are still unseen
C10_Witness ==
    \E p \in PollIds :
        /\ Done(p)
        /\ polls[p].sent = 1
        /\ polls[p].sentCount = 2
        /\ Found(p) = unseen

====
